---- MODULE Spec2Model ----
(***************************************************************************)
(* AdvancedTransfer (plugins.v2/advancedtransfer/__init__.py): one cron    *)
(* triggered reconciliation run between a source and a target downloader.  *)
(* The plugin's code is modelled statement by statement; the downloaders   *)
(* and the plugin data store are the environment, and every call on them   *)
(* may return its result, return a failure value, or raise.                *)
(***************************************************************************)
EXTENDS Integers, Sequences, FiniteSets, TLC

(***************************************************************************)
(* Bounds of the model.                                                    *)
(***************************************************************************)
MaxTorrents == 2    \* longest list get_completed_torrents returns
MaxRuns == 2        \* runs of _do_transfer that start (also the clock's range)

(***************************************************************************)
(* Strings: Python's str.startswith, str.strip and str.lower.              *)
(***************************************************************************)
StartsWith(s, p) == Len(s) >= Len(p) /\ SubSeq(s, 1, Len(p)) = p

RECURSIVE LStrip(_)
LStrip(s) ==
    IF Len(s) > 0 /\ SubSeq(s, 1, 1) = " " THEN LStrip(SubSeq(s, 2, Len(s))) ELSE s

RECURSIVE RStrip(_)
RStrip(s) ==
    IF Len(s) > 0 /\ SubSeq(s, Len(s), Len(s)) = " "
    THEN RStrip(SubSeq(s, 1, Len(s) - 1)) ELSE s

Strip(s) == RStrip(LStrip(s))

LowerChar(c) ==
    CASE c = "A" -> "a" [] c = "B" -> "b" [] c = "C" -> "c"
      [] c = "D" -> "d" [] c = "E" -> "e" [] c = "F" -> "f"
      [] OTHER -> c

RECURSIVE Lower(_)
Lower(s) ==
    IF Len(s) = 0 THEN s
    ELSE LowerChar(SubSeq(s, 1, 1)) \o Lower(SubSeq(s, 2, Len(s)))

Range(q) == {q[i] : i \in 1..Len(q)}

RECURSIVE SeqsUpTo(_, _)
SeqsUpTo(S, n) ==
    IF n = 0 THEN {<<>>}
    ELSE LET shorter == SeqsUpTo(S, n - 1)
         IN  shorter \cup {Append(q, x) : q \in {p \in shorter : Len(p) = n - 1}, x \in S}

(***************************************************************************)
(* Finite maps (Python dicts): a function whose domain is the key set.     *)
(***************************************************************************)
EmptyMap == [k \in {} |-> 0]
Put(m, k, v) == [x \in DOMAIN m \cup {k} |-> IF x = k THEN v ELSE m[x]]

(***************************************************************************)
(* The universe the environment draws from.                                *)
(***************************************************************************)
U1 == "http://a"
U2 == "udp://b"
U3 == "** [DHT] **"           \* an entry the tracker readers filter out

\* A raw torrent of the source's completed list: its hash as the client
\* reports it, its name, the entries of its tracker list and the indices of
\* its files with priority 0 / selected = False.
RawTorrent(h, n, trs, unw) ==
    [hash |-> h, name |-> n, trackers |-> trs, unwanted |-> unw]

ServiceTypes == {"qbittorrent", "transmission"}

\* The (source, target) service types of the configured downloaders; the
\* last source is of a type the plugin has no extractor for.
TypePairs ==
    { [source |-> "qbittorrent", target |-> "qbittorrent"],
      [source |-> "qbittorrent", target |-> "transmission"],
      [source |-> "transmission", target |-> "qbittorrent"],
      [source |-> "rtorrent", target |-> "qbittorrent"] }

\* qBittorrent lists pseudo entries such as U3 among a torrent's trackers;
\* Transmission lists announce URLs only.
Reported(service_type, trs) ==
    IF service_type = "qbittorrent" THEN trs ELSE SelectSeq(trs, LAMBDA u : u # U3)

R1(service_type) ==
    RawTorrent("AB", "Example", Reported(service_type, <<U3, U1>>), <<>>)
R2 == RawTorrent("cd", "Other", <<U1, U2>>, <<2, 5>>)
R0 == RawTorrent("", "NoHash", <<U1>>, <<>>)

\* The completed lists of the source: the first MaxTorrents torrents, or
\* fewer, of these lists (two hashes, a hash listed twice, a torrent without
\* a hash).
FullLists(service_type) ==
    LET A == R1(service_type)
    IN  { <<A, R2, A, R2>>, <<A, A, R2, R2>>, <<R0, A, R2, A>> }

\* The hash the target holds before the first run.
TargetHashes == {"ab"}

\* Tracker lists a torrent of the target may have before the run.
TargetTrackerLists(service_type) == {<<U1>>, Reported(service_type, <<U3, U2>>)}

\* What a call on a downloader or on the data store can do.
Ok == "ok"
Fail == "fail"      \* returns None / False / an empty value
Raise == "raise"    \* raises an exception
Outcomes == {Ok, Fail, Raise}

(***************************************************************************)
(* Tracker URL extraction: _get_qb_tracker_urls and _get_tr_tracker_urls.  *)
(* Both keep the entries that start with "http" or "udp", stripped, in     *)
(* order; an exception ends the loop and the URLs collected so far are     *)
(* returned.  `n` is the number of entries read before the exception:      *)
(* Len(trackers) when none is raised, 0 when the client call itself        *)
(* (torrents_trackers, torrent.trackers) raises.                           *)
(***************************************************************************)
AcceptedUrl(url) == url # "" /\ (StartsWith(url, "http") \/ StartsWith(url, "udp"))

RECURSIVE CollectUrls(_)
CollectUrls(trackers) ==
    IF trackers = <<>> THEN <<>>
    ELSE LET url == Head(trackers)
         IN  (IF AcceptedUrl(url) THEN <<Strip(url)>> ELSE <<>>)
                 \o CollectUrls(Tail(trackers))

_get_qb_tracker_urls(trackers, n) == CollectUrls(SubSeq(trackers, 1, n))

_get_tr_tracker_urls(trackers, n) == CollectUrls(SubSeq(trackers, 1, n))

ReadUpTo(trackers) == {0, Len(trackers)}

TrackerUrls(service_type, trackers, n) ==
    IF service_type = "qbittorrent"
    THEN _get_qb_tracker_urls(trackers, n)
    ELSE _get_tr_tracker_urls(trackers, n)

(***************************************************************************)
(* _sanitize_tracker_list: flatten, str(), strip, filter, dedupe in order. *)
(* An item is a string, a nested list of strings, or None.                 *)
(***************************************************************************)
StrItem(s) == [kind |-> "str", s |-> s, sub |-> <<>>]
ListItem(q) == [kind |-> "list", s |-> "", sub |-> q]
NoneItem == [kind |-> "none", s |-> "", sub |-> <<>>]

AsItems(urls) == [i \in 1..Len(urls) |-> StrItem(urls[i])]

RECURSIVE CleanStrings(_)
CleanStrings(q) ==
    IF q = <<>> THEN <<>>
    ELSE LET url == Strip(Head(q))
         IN  (IF AcceptedUrl(url) THEN <<url>> ELSE <<>>) \o CleanStrings(Tail(q))

RECURSIVE CleanItems(_)
CleanItems(items) ==
    IF items = <<>> THEN <<>>
    ELSE LET item == Head(items)
         IN  (CASE item.kind = "list" -> CleanStrings(item.sub)
                [] item.kind = "str" -> CleanStrings(<<item.s>>)
                [] OTHER -> <<>>)
                 \o CleanItems(Tail(items))

RECURSIVE Dedupe(_, _)
Dedupe(q, seen) ==
    IF q = <<>> THEN <<>>
    ELSE IF Head(q) \in seen THEN Dedupe(Tail(q), seen)
         ELSE <<Head(q)>> \o Dedupe(Tail(q), seen \cup {Head(q)})

_sanitize_tracker_list(tracker_list) == Dedupe(CleanItems(tracker_list), {})

(***************************************************************************)
(* _execute_transfer, lines 852-854: the trackers the target lacks.        *)
(***************************************************************************)
\* The difference taken the wrong way round.
missing_trackers_swapped(meta_trackers, target_tracker_list) ==
    Range(target_tracker_list) \ Range(meta_trackers)

missing_trackers(meta_trackers, target_tracker_list) ==
    Range(meta_trackers) \ Range(target_tracker_list)

\* list(missing_trackers): a set is listed in an order the code does not fix.
Listings(S) == {q \in SeqsUpTo(S, Cardinality(S)) : Len(q) = Cardinality(S) /\ Range(q) = S}
(***************************************************************************)
(* State.                                                                   *)
(***************************************************************************)
VARIABLES
    cfg,     \* _source_id, _target_id, _clean_source, _notify (lines 54-61)
    types,   \* the service type of the source and of the target downloader
    src,     \* the source downloader: its completed torrents, the paused hashes
    tgt,     \* the target downloader: hash -> its torrent (trackers, unwanted files)
    store,   \* the plugin data "history": hash -> transfer record
    lock,    \* _lock (line 65): TRUE while held
    now,     \* the clock: the number of runs started
    active,  \* the number of callers inside _do_transfer
    run,     \* the position in the code and the locals of the run in progress
    ev       \* the last step taken: the calls it issued and their outcome

vars == <<cfg, types, src, tgt, store, lock, now, active, run, ev>>

ZeroStats ==
    [transferred |-> 0, merged |-> 0, skipped |-> 0, failed |-> 0, details |-> <<>>]

NoMeta == [hash |-> "", name |-> "", trackers |-> <<>>, unwanted_file_ids |-> <<>>]

NoContent == [kind |-> "none", trackers |-> <<>>]

\* The locals of a thread that is not inside transfer_torrents.
Idle ==
    [pc |-> "idle", torrents |-> <<>>, pos |-> 0, history |-> EmptyMap,
     stats |-> ZeroStats, meta |-> NoMeta, hash |-> "", content |-> NoContent,
     scenario |-> "none", success |-> FALSE, missing |-> <<>>, existing |-> <<>>,
     exc |-> FALSE,
     \* bookkeeping, read by the properties only: the stages of the current
     \* torrent in which a call raised, the failed count when the torrent
     \* began, whether a target query of this run raised, the hashes the run
     \* issued the pause call for, the get_data and save_data calls made,
     \* and the torrents of the list the run left at line 474 or 479
     errs |-> {}, base |-> 0, connErr |-> FALSE,
     stops |-> {}, reads |-> 0, writes |-> 0, dropped |-> 0]

NoEvent == [op |-> "none", outcome |-> "none", calls |-> <<>>]

Event(op, outcome, calls) ==
    [op |-> op, outcome |-> outcome, calls |-> calls]

\* A call issued on a downloader ("source", "target"), on the plugin data
\* store ("store") or on the notification channel ("host").
Call(on, op, h, arg) == [on |-> on, op |-> op, hash |-> h, arg |-> arg]

SourceLists(service_type) ==
    { SubSeq(full, 1, k) : full \in FullLists(service_type), k \in 0..MaxTorrents }

\* The configurations init_plugin may have loaded.
Configs ==
    { [source_id |-> "dl1", target_id |-> "dl2", clean_source |-> TRUE, notify |-> TRUE],
      [source_id |-> "dl1", target_id |-> "dl2", clean_source |-> FALSE, notify |-> FALSE],
      [source_id |-> "dl1", target_id |-> "dl1", clean_source |-> TRUE, notify |-> TRUE] }

TargetTorrent(trs) == [trackers |-> trs, paused |-> FALSE]

TargetStates(service_type) ==
    [TargetHashes -> {TargetTorrent(trs) : trs \in TargetTrackerLists(service_type)}]

Init ==
    /\ cfg \in Configs
    /\ types \in TypePairs
    /\ src \in [torrents : SourceLists(types.source), paused : {{}}]
    /\ tgt \in TargetStates(types.target)
    /\ store = EmptyMap
    /\ lock = FALSE
    /\ now = 0
    /\ active = 0
    /\ run = Idle
    /\ ev = NoEvent

Set(r) == run' = r

(***************************************************************************)
(* transfer_torrents, lines 363-369: the non-blocking acquire.             *)
(***************************************************************************)
acquire_always(held) == TRUE    \* the guard forgotten: every caller enters

acquire(held) == ~held      \* _lock.acquire(blocking=False)

\* The lock is taken: the caller enters _do_transfer.
TriggerAcquired ==
    /\ now < MaxRuns
    /\ acquire(lock)
    /\ lock' = TRUE
    /\ now' = now + 1
    /\ active' = active + 1
    /\ Set([Idle EXCEPT !.pc = "start"])
    /\ ev' = Event("acquire", Ok, <<>>)
    /\ UNCHANGED <<cfg, types, src, tgt, store>>

\* The lock is held: the caller logs a warning and returns (lines 366-369).
TriggerDropped ==
    /\ ~acquire(lock)
    /\ UNCHANGED vars

(***************************************************************************)
(* _do_transfer, lines 379-435: the checks before the loop.                *)
(***************************************************************************)
\* The run without the test of line 383.
same_ids_unchecked(source_id, target_id) == FALSE

\* line 383: self._source_id == self._target_id.
same_ids(source_id, target_id) == source_id = target_id

\* line 383: source and target must differ.
DoTransferSameIds ==
    /\ run.pc = "start"
    /\ same_ids(cfg.source_id, cfg.target_id)
    /\ Set([run EXCEPT !.pc = "release"])
    /\ ev' = Event("same_ids", Fail, <<>>)
    /\ UNCHANGED <<cfg, types, src, tgt, store, lock, now, active>>

\* lines 391-403: a service that is missing or has no instance.
DoTransferUnavailable ==
    /\ run.pc = "start"
    /\ ~same_ids(cfg.source_id, cfg.target_id)
    /\ \E which \in {"source", "target"} :
           ev' = Event("unavailable", which, <<>>)
    /\ Set([run EXCEPT !.pc = "release"])
    /\ UNCHANGED <<cfg, types, src, tgt, store, lock, now, active>>

\* line 410 raises, or lines 412-422: the list call raises, returns None
\* or returns an empty list.
DoTransferNoList ==
    /\ run.pc = "start"
    /\ ~same_ids(cfg.source_id, cfg.target_id)
    /\ \E d \in {Ok, Raise}, l \in Outcomes :
          /\ d = Ok => (l = Ok => src.torrents = <<>>)
          /\ d = Raise => l = Ok
          /\ Set([run EXCEPT !.pc = "release", !.reads = @ + 1,
                                   !.exc = (d = Raise \/ l = Raise)])
          /\ ev' = Event("no_list", IF d = Raise THEN "get_data" ELSE l,
                         <<Call("store", "get_data", "", <<>>)>> \o
                         (IF d = Ok
                          THEN <<Call("source", "get_completed_torrents", "", <<>>)>>
                          ELSE <<>>))
    /\ UNCHANGED <<cfg, types, src, tgt, store, lock, now, active>>

\* A run that starts from an empty ledger instead of the persisted one.
get_data_unread(data) == EmptyMap

\* line 410: self.get_data("history") or {}; the data nobody saved yet is the
\* empty map.
get_data(data) == data

\* lines 410-435: the ledger is read, the list is taken, the statistics start.
DoTransferBegin ==
    /\ run.pc = "start"
    /\ ~same_ids(cfg.source_id, cfg.target_id)
    /\ src.torrents # <<>>
    /\ Set([run EXCEPT !.pc = "loop", !.history = get_data(store),
                             !.torrents = src.torrents, !.pos = 1,
                             !.stats = ZeroStats, !.reads = @ + 1])
    /\ ev' = Event("begin", Ok,
                   <<Call("store", "get_data", "", <<>>),
                     Call("source", "get_completed_torrents", "", <<>>)>>)
    /\ UNCHANGED <<cfg, types, src, tgt, store, lock, now, active>>
(***************************************************************************)
(* The loop of _do_transfer (lines 437-449) and _process_single_torrent.   *)
(***************************************************************************)
Torrent(r) == r.torrents[r.pos]

Failed(r) == [r.stats EXCEPT !.failed = @ + 1]

\* A loop that does not advance.
NextTorrent_stuck(r) ==
    [r EXCEPT !.pc = "loop", !.meta = NoMeta, !.hash = "",
              !.content = NoContent, !.scenario = "none", !.success = FALSE,
              !.missing = <<>>, !.existing = <<>>]

\* The next iteration of `for torrent in source_torrents`.
NextTorrent(r) ==
    [r EXCEPT !.pc = "loop", !.pos = @ + 1, !.meta = NoMeta, !.hash = "",
              !.content = NoContent, !.scenario = "none", !.success = FALSE,
              !.missing = <<>>, !.existing = <<>>]

\* The handler without `stats["failed"] += 1`.
LoopExcept_uncounted(r) == NextTorrent(r)

\* The loop without its try: the exception ends _do_transfer.
LoopExcept_abort(r) == [r EXCEPT !.pc = "release", !.exc = TRUE]

\* lines 444-449: an exception of _process_single_torrent is counted.
LoopExcept(r) == NextTorrent([r EXCEPT !.stats = Failed(r)])

\* _get_qb_unwanted_files / _get_tr_unwanted_files, lines 620-674.
UnwantedFiles(torrent, f) == IF f = Ok THEN torrent.unwanted ELSE <<>>

\* The extractor of Transmission used for every other type.
_extract_meta_any_type(service_type, torrent, e, n, f) ==
    IF e = Raise
    THEN [none |-> TRUE, meta |-> NoMeta]
    ELSE [none |-> FALSE,
          meta |-> [hash |-> torrent.hash, name |-> torrent.name,
                    trackers |-> TrackerUrls(service_type, torrent.trackers, n),
                    unwanted_file_ids |-> UnwantedFiles(torrent, f)]]

\* _extract_meta, lines 535-614: None for an unknown service type or when
\* the extraction raises.
_extract_meta(service_type, torrent, e, n, f) ==
    IF service_type \notin {"qbittorrent", "transmission"} \/ e = Raise
    THEN [none |-> TRUE, meta |-> NoMeta]
    ELSE [none |-> FALSE,
          meta |-> [hash |-> torrent.hash, name |-> torrent.name,
                    trackers |-> TrackerUrls(service_type, torrent.trackers, n),
                    unwanted_file_ids |-> UnwantedFiles(torrent, f)]]

MetaCalls(service_type, torrent, e) ==
    IF e = Raise \/ service_type \notin ServiceTypes THEN <<>>
    ELSE (IF service_type = "qbittorrent"
          THEN <<Call("source", "torrents_trackers", torrent.hash, <<>>)>>
          ELSE <<>>)
         \o <<Call("source", "get_files", torrent.hash, <<>>)>>

in_history_never(torrent_hash, history) == FALSE    \* the ledger lookup left out

\* line 478: a hash of the ledger is not processed again.
in_history(torrent_hash, history) == torrent_hash \in DOMAIN history

\* lines 472-479.
ExtractMeta ==
    LET r == run IN
    /\ r.pc = "loop"
    /\ r.pos <= Len(r.torrents)
    /\ \E e \in {Ok, Raise}, n \in ReadUpTo(Torrent(r).trackers), f \in Outcomes :
          LET got == _extract_meta(types.source, Torrent(r), e, n, f)
              torrent_hash == Lower(got.meta.hash)
              errs == IF e = Raise THEN {"meta"} ELSE {}
              r0 == [r EXCEPT !.errs = errs, !.base = r.stats.failed]
          IN  /\ e = Raise => (n = Len(Torrent(r).trackers) /\ f = Ok)
              \* no extractor, no call that could fail
              /\ types.source \notin ServiceTypes =>
                    (e = Ok /\ n = Len(Torrent(r).trackers) /\ f = Ok)
              /\ IF got.none \/ got.meta.hash = ""
                 THEN /\ Set(NextTorrent([r0 EXCEPT !.dropped = @ + 1]))
                      /\ ev' = Event("extract_meta", "no_meta",
                                     MetaCalls(types.source, Torrent(r), e))
                 ELSE IF in_history(torrent_hash, r.history)
                 THEN /\ Set(NextTorrent([r0 EXCEPT !.dropped = @ + 1]))
                      /\ ev' = Event("extract_meta", "in_history",
                                     MetaCalls(types.source, Torrent(r), e))
                 ELSE /\ Set([r0 EXCEPT !.pc = "content", !.meta = got.meta,
                                           !.hash = torrent_hash])
                      /\ ev' = Event("extract_meta", Ok,
                                     MetaCalls(types.source, Torrent(r), e))
    /\ UNCHANGED <<cfg, types, src, tgt, store, lock, now, active>>

\* The announce URLs inside the exported .torrent file.
FileTrackers(torrent) == CollectUrls(torrent.trackers)

\* urllib.parse.quote: letters, digits and "_.-~" stay, the characters of
\* `safe` stay, every other character becomes % and its two hex digits.
QuoteChar(c) ==
    CASE c = " " -> "%20" [] c = "%" -> "%25" [] c = "&" -> "%26"
      [] c = "*" -> "%2A" [] c = "/" -> "%2F" [] c = ":" -> "%3A"
      [] c = "=" -> "%3D" [] c = "?" -> "%3F" [] c = "[" -> "%5B"
      [] c = "]" -> "%5D"
      [] OTHER -> c

RECURSIVE quote(_, _)
quote(string, safe) ==
    IF Len(string) = 0 THEN string
    ELSE LET c == SubSeq(string, 1, 1)
         IN  (IF c \in safe THEN c ELSE QuoteChar(c))
                 \o quote(SubSeq(string, 2, Len(string)), safe)

RECURSIVE TrParams(_)
TrParams(trackers) ==
    IF trackers = <<>> THEN ""
    ELSE "&tr=" \o quote(Head(trackers), {}) \o TrParams(Tail(trackers))

\* The magnet with its trackers deduplicated first.
_build_magnet_dedupe(info_hash, trackers, name) ==
    "magnet:?xt=urn:btih:" \o info_hash
        \o (IF name # "" THEN "&dn=" \o quote(name, {"/"}) ELSE "")
        \o TrParams(Dedupe(trackers, {}))

\* _build_magnet, lines 797-807.
_build_magnet(info_hash, trackers, name) ==
    "magnet:?xt=urn:btih:" \o info_hash
        \o (IF name # "" THEN "&dn=" \o quote(name, {"/"}) ELSE "")
        \o TrParams(trackers)

\* The magnet built without trying the export.
_get_torrent_content_magnet_only(service_type, torrent, meta, x) ==
    [kind |-> "magnet", trackers |-> meta.trackers]

\* _get_torrent_content, lines 763-795: the exported bytes when the source
\* is qBittorrent and the export yields some, else the magnet.
_get_torrent_content(service_type, torrent, meta, x) ==
    IF service_type = "qbittorrent" /\ x = Ok
    THEN [kind |-> "bytes", trackers |-> FileTrackers(torrent)]
    ELSE [kind |-> "magnet", trackers |-> meta.trackers]

\* lines 486-494.
GetContent ==
    LET r == run IN
    /\ r.pc = "content"
    /\ \E x \in Outcomes :
          LET content == _get_torrent_content(types.source, Torrent(r), r.meta, x)
              asked == types.source = "qbittorrent"
          IN  /\ ~asked => x = Fail
              /\ IF content.kind = "none"
                 THEN Set(NextTorrent([r EXCEPT !.stats = Failed(r)]))
                 ELSE Set([r EXCEPT !.pc = "query", !.content = content])
              /\ ev' = Event("content", IF asked THEN x ELSE "none",
                             IF asked
                             THEN <<Call("source", "torrents_export", r.meta.hash, <<>>)>>
                             ELSE <<>>)
    /\ UNCHANGED <<cfg, types, src, tgt, store, lock, now, active>>

(***************************************************************************)
(* _execute_transfer, lines 813-865.                                       *)
(***************************************************************************)
QueryCall(r) == Call("target", "get_torrents", r.hash, <<>>)

TargetReadCalls(r) ==
    IF types.target = "qbittorrent"
    THEN <<Call("target", "torrents_trackers", r.hash, <<>>)>>
    ELSE <<>>

\* lines 826-834: the query raises (caught by the loop) or reports an error.
QueryFails ==
    LET r == run IN
    /\ r.pc = "query"
    /\ \E q \in {Fail, Raise} :
          /\ IF q = Raise
             THEN Set(LoopExcept([r EXCEPT !.errs = @ \cup {"query"},
                                              !.connErr = TRUE]))
             ELSE Set([r EXCEPT !.pc = "result", !.scenario = "none",
                                   !.success = FALSE])
          /\ ev' = Event("query", q, <<QueryCall(r)>>)
    /\ UNCHANGED <<cfg, types, src, tgt, store, lock, now, active>>

\* The answer of the query not looked at: every torrent is taken as new.
target_torrents_none(target, torrent_hash) == <<>>

\* lines 826-828: get_torrents(ids=torrent_hash), the target's torrents with
\* the hash.
target_torrents(target, torrent_hash) ==
    IF torrent_hash \in DOMAIN target THEN <<target[torrent_hash]>> ELSE <<>>

\* lines 836-840: the target has no torrent with the hash.
ClassifyA ==
    LET r == run IN
    /\ r.pc = "query"
    /\ target_torrents(tgt, r.hash) = <<>>
    /\ Set([r EXCEPT !.pc = "A_add", !.scenario = "A"])
    /\ ev' = Event("query", "A", <<QueryCall(r)>>)
    /\ UNCHANGED <<cfg, types, src, tgt, store, lock, now, active>>

\* lines 842-865: the hash is on the target; its trackers decide B or C.
ClassifyBC ==
    LET r == run IN
    /\ r.pc = "query"
    /\ target_torrents(tgt, r.hash) # <<>>
    /\ \E n \in ReadUpTo(tgt[r.hash].trackers) :
          LET target_tracker_list ==
                  TrackerUrls(types.target, tgt[r.hash].trackers, n)
              missing == missing_trackers(r.meta.trackers, target_tracker_list)
              r0 == [r EXCEPT !.existing = target_tracker_list]
          IN  IF missing # {}
              THEN \E listed \in Listings(missing) :
                      /\ Set([r0 EXCEPT !.pc = "B_primary", !.scenario = "B",
                                           !.missing = listed])
                      /\ ev' = Event("query", "B",
                                     <<QueryCall(r)>> \o TargetReadCalls(r))
              ELSE /\ Set([r0 EXCEPT !.pc = "result", !.scenario = "C",
                                        !.success = TRUE])
                   /\ ev' = Event("query", "C",
                                  <<QueryCall(r)>> \o TargetReadCalls(r))
    /\ UNCHANGED <<cfg, types, src, tgt, store, lock, now, active>>
(***************************************************************************)
(* Scenario A: _scenario_a (869-920), _add_to_target (1107-1228),          *)
(* _sync_unwanted_files (1048-1101).                                       *)
(***************************************************************************)
\* The add as the reference plugin issues it: paused, to be started later.
AddCall_paused(target_type, r) ==
    IF target_type = "qbittorrent"
    THEN Call("target", "torrents_add", r.hash,
              [kind |-> r.content.kind, is_paused |-> TRUE,
               use_auto_torrent_management |-> TRUE])
    ELSE Call("target", "add_torrent", r.hash,
              [kind |-> r.content.kind, is_paused |-> TRUE])

\* The add call: torrents_add on qBittorrent (lines 1157-1179), add_torrent
\* on Transmission (lines 1210-1215).
AddCall(target_type, r) ==
    IF target_type = "qbittorrent"
    THEN Call("target", "torrents_add", r.hash,
              [kind |-> r.content.kind, is_paused |-> FALSE,
               use_auto_torrent_management |-> FALSE])
    ELSE Call("target", "add_torrent", r.hash,
              [kind |-> r.content.kind, is_paused |-> FALSE])

\* The target once the add call succeeded: it holds the torrent with the
\* trackers the content carries.
Added(target, r) ==
    Put(target, r.hash,
        [TargetTorrent(r.content.trackers) EXCEPT
            !.paused = AddCall(types.target, r).arg.is_paused])

\* The result of the file priority step made part of the scenario's result.
scenario_a_sync_fatal(add_ok, synced) == add_ok /\ synced \in {Ok, "skipped"}

\* _scenario_a, lines 899-920: what it returns as success. The result of
\* _sync_unwanted_files is not looked at.
scenario_a(add_ok, synced) == add_ok

\* lines 899-906.
ScenarioA_add ==
    LET r == run IN
    /\ r.pc = "A_add"
    /\ \E a \in Outcomes :
          /\ IF a = Ok
             THEN /\ tgt' = Added(tgt, r)
                  /\ Set([r EXCEPT !.pc = "A_sync"])
             ELSE /\ tgt' = tgt
                  /\ Set([r EXCEPT !.pc = "result",
                                      !.success = scenario_a(FALSE, "none"),
                                      !.errs = @ \cup (IF a = Raise THEN {"add"} ELSE {})])
          /\ ev' = Event("add", a, <<AddCall(types.target, r)>>)
    /\ UNCHANGED <<cfg, types, src, store, lock, now, active>>

\* The condition without `isinstance(content, bytes)`.
sync_wanted_any_content(unwanted, content) == unwanted # <<>>

\* line 910: the condition of Partial Download Sync.
sync_wanted(unwanted, content) == unwanted # <<>> /\ content.kind = "bytes"

SyncCall(target_type, r) ==
    Call("target",
         IF target_type = "qbittorrent" THEN "set_files" ELSE "set_unwanted_files",
         r.hash, r.meta.unwanted_file_ids)

\* lines 908-920.
ScenarioA_sync ==
    LET r == run IN
    /\ r.pc = "A_sync"
    /\ IF sync_wanted(r.meta.unwanted_file_ids, r.content)
       THEN \E s \in Outcomes :
               /\ tgt' = tgt
               /\ Set([r EXCEPT !.pc = "result", !.success = scenario_a(TRUE, s)])
               /\ ev' = Event("sync", s, <<SyncCall(types.target, r)>>)
       ELSE /\ tgt' = tgt
            /\ Set([r EXCEPT !.pc = "result",
                                !.success = scenario_a(TRUE, "skipped")])
            /\ ev' = Event("sync", "skipped", <<>>)
    /\ UNCHANGED <<cfg, types, src, store, lock, now, active>>

(***************************************************************************)
(* Scenario B: _scenario_b (924-979) and _inject_tr_trackers (981-1042).   *)
(***************************************************************************)
\* What the downloaders do with the trackers they are given: qBittorrent's
\* update_tracker and Transmission's tracker_add append the URLs the torrent
\* lacks; Transmission's tracker_list replaces the torrent's list.
Appended(trackers, urls) == trackers \o Dedupe(urls, Range(trackers))

RECURSIVE Flatten(_)
Flatten(tiers) == IF tiers = <<>> THEN <<>> ELSE Head(tiers) \o Flatten(Tail(tiers))

Replaced(trackers, tiers) == Flatten(tiers)

\* lines 1001-1003: existing + missing, sanitized, one tier per URL.
tr_tiers(existing_tracker_list, missing) ==
    LET clean_list == _sanitize_tracker_list(AsItems(existing_tracker_list \o missing))
    IN  [i \in 1..Len(clean_list) |-> <<clean_list[i]>>]

\* lines 945-954 (qBittorrent) and 1001-1015 (Transmission): update_tracker.
ScenarioB_primary ==
    LET r == run
        qb == types.target = "qbittorrent"
        arg == IF qb THEN _sanitize_tracker_list(AsItems(r.missing))
               ELSE tr_tiers(r.existing, r.missing)
    IN
    /\ r.pc = "B_primary"
    /\ \E u \in Outcomes :
          /\ tgt' = IF u = Ok /\ r.hash \in DOMAIN tgt
                    THEN [tgt EXCEPT ![r.hash].trackers =
                              IF qb THEN Appended(@, arg) ELSE Replaced(@, arg)]
                    ELSE tgt
          /\ Set(CASE u = Ok -> [r EXCEPT !.pc = "result", !.success = TRUE]
                      [] u = Fail /\ ~qb -> [r EXCEPT !.pc = "B_fallback"]
                      [] u = Fail /\ qb -> [r EXCEPT !.pc = "result", !.success = FALSE]
                      [] OTHER -> [r EXCEPT !.pc = "result", !.success = FALSE,
                                            !.errs = @ \cup {"inject"}])
          /\ ev' = Event("inject", u, <<Call("target", "update_tracker", r.hash, arg)>>)
    /\ UNCHANGED <<cfg, types, src, store, lock, now, active>>

\* lines 1017-1042: tracker_add with the missing URLs only.
ScenarioB_fallback ==
    LET r == run
        clean_missing == _sanitize_tracker_list(AsItems(r.missing))
    IN
    /\ r.pc = "B_fallback"
    /\ \E c \in Outcomes :
          \* Fail: the server has no trc client; change_torrent returns nothing.
          /\ tgt' = IF c = Ok /\ r.hash \in DOMAIN tgt
                    THEN [tgt EXCEPT ![r.hash].trackers = Appended(@, clean_missing)]
                    ELSE tgt
          /\ Set([r EXCEPT !.pc = "result", !.success = (c = Ok),
                              !.errs = @ \cup (IF c = Raise THEN {"inject"} ELSE {})])
          /\ ev' = Event("fallback", c,
                         IF c = Fail THEN <<>>
                         ELSE <<Call("target", "change_torrent", r.hash, clean_missing)>>)
    /\ UNCHANGED <<cfg, types, src, store, lock, now, active>>

(***************************************************************************)
(* _process_single_torrent, lines 501-529: the outcome is recorded.        *)
(***************************************************************************)
recorded_always(success) == TRUE     \* `if not success` left out

\* line 501: only a successful scenario reaches the ledger.
recorded(success) == success

\* lines 507-513.
Record(r) ==
    [name |-> r.meta.name, scenario |-> r.scenario, time |-> now,
     source |-> cfg.source_id, target |-> cfg.target_id]

\* Scenario C counted as skipped and as merged.
Counted_twice(r) ==
    CASE r.scenario = "A" ->
            [r.stats EXCEPT !.transferred = @ + 1,
                            !.details = Append(@, <<"transferred", r.meta.name>>)]
      [] r.scenario = "B" ->
            [r.stats EXCEPT !.merged = @ + 1,
                            !.details = Append(@, <<"merged", r.meta.name>>)]
      [] OTHER -> [r.stats EXCEPT !.skipped = @ + 1, !.merged = @ + 1]

\* lines 515-522: one counter for the scenario.
Counted(r) ==
    CASE r.scenario = "A" ->
            [r.stats EXCEPT !.transferred = @ + 1,
                            !.details = Append(@, <<"transferred", r.meta.name>>)]
      [] r.scenario = "B" ->
            [r.stats EXCEPT !.merged = @ + 1,
                            !.details = Append(@, <<"merged", r.meta.name>>)]
      [] OTHER -> [r.stats EXCEPT !.skipped = @ + 1]

\* The pause without the early return of scenario C (line 523).
pause_wanted_any(scenario, clean_source) == clean_source

\* The pause without the test of the configuration (line 526).
pause_wanted_unconfigured(scenario, clean_source) == scenario \in {"A", "B"}

\* lines 515-526: the source is paused after a successful A or B only.
pause_wanted(scenario, clean_source) == scenario \in {"A", "B"} /\ clean_source

Result ==
    LET r == run IN
    /\ r.pc = "result"
    /\ IF ~recorded(r.success)
       THEN /\ Set(NextTorrent(
                   [r EXCEPT !.stats = [Failed(r) EXCEPT
                        !.details = Append(@, <<"failed", r.meta.name>>)]]))
            /\ ev' = Event("result", "failed", <<>>)
       ELSE LET r1 == [r EXCEPT !.history = Put(@, r.hash, Record(r)),
                                !.stats = Counted(r)]
            IN  /\ Set(IF pause_wanted(r.scenario, cfg.clean_source)
                          THEN [r1 EXCEPT !.pc = "stop"]
                          ELSE NextTorrent(r1))
                /\ ev' = Event("result", r.scenario, <<>>)
    /\ UNCHANGED <<cfg, types, src, tgt, store, lock, now, active>>

\* The source torrent deleted instead of paused.
StopCall_delete(r) == Call("source", "delete_torrents", r.hash, <<>>)

\* _stop_source_torrent, lines 1234-1254: the one call that changes the source.
StopCall(r) == Call("source", "stop_torrents", r.hash, <<>>)

StopSource ==
    LET r == run IN
    /\ r.pc = "stop"
    /\ \E s \in Outcomes :
          /\ src' = IF s = Ok THEN [src EXCEPT !.paused = @ \cup {r.hash}] ELSE src
          /\ Set(NextTorrent([r EXCEPT !.stops = @ \cup {r.hash},
                  !.errs = @ \cup (IF s = Raise THEN {"stop"} ELSE {})]))
          /\ ev' = Event("stop", s, <<StopCall(r)>>)
    /\ UNCHANGED <<cfg, types, tgt, store, lock, now, active>>

(***************************************************************************)
(* The end of _do_transfer (451-463) and of transfer_torrents (372-377).   *)
(***************************************************************************)
\* line 451: save_data("history", history).
SaveLedger ==
    LET r == run IN
    /\ r.pc = "loop"
    /\ r.pos > Len(r.torrents)
    /\ \E w \in {Ok, Raise} :
          /\ store' = IF w = Ok THEN r.history ELSE store
          /\ Set(IF w = Ok THEN [r EXCEPT !.pc = "notify", !.writes = @ + 1]
                    ELSE [r EXCEPT !.pc = "release", !.exc = TRUE,
                                   !.writes = @ + 1])
          /\ ev' = Event("save", w, <<Call("store", "save_data", "", <<>>)>>)
    /\ UNCHANGED <<cfg, types, src, tgt, lock, now, active>>

total_actions(stats) == stats.transferred + stats.merged + stats.failed

\* _send_notification, line 1277: at most 20 detail lines are sent.
MaxDetails == 20

\* The notification with every detail line.
Shown_all(details) == details

\* line 1277: details[:20].
Shown(details) == SubSeq(details, 1, IF Len(details) < MaxDetails THEN Len(details) ELSE MaxDetails)

\* lines 459-463.
Notify ==
    LET r == run IN
    /\ r.pc = "notify"
    /\ IF cfg.notify /\ total_actions(r.stats) > 0
       THEN \E m \in {Ok, Raise} :
               /\ Set([r EXCEPT !.pc = "release", !.exc = (m = Raise)])
               /\ ev' = Event("notify", m,
                              <<Call("host", "post_message", "", Shown(r.stats.details))>>)
       ELSE /\ Set([r EXCEPT !.pc = "release"])
            /\ ev' = Event("notify", "skipped", <<>>)
    /\ UNCHANGED <<cfg, types, src, tgt, store, lock, now, active>>

\* try/finally without the except clause.
transfer_torrents_no_except(exc) == IF exc THEN "propagated" ELSE "normal"

\* lines 372-375: `except Exception` keeps the exception from the caller.
transfer_torrents_except(exc) == IF exc THEN "caught" ELSE "normal"

\* The release written after the call instead of in a finally clause: an
\* exception of _do_transfer leaves the lock held.
Release_no_finally ==
    LET r == run IN
    /\ r.pc = "release"
    /\ lock' = IF r.exc THEN lock ELSE FALSE
    /\ active' = active - 1
    /\ Set(Idle)
    /\ ev' = Event("return", transfer_torrents_except(r.exc), <<>>)
    /\ UNCHANGED <<cfg, types, src, tgt, store, now>>

\* lines 376-377: the lock is released and transfer_torrents returns.
Release ==
    LET r == run IN
    /\ r.pc = "release"
    /\ lock' = FALSE
    /\ active' = active - 1
    /\ Set(Idle)
    /\ ev' = Event("return", transfer_torrents_except(r.exc), <<>>)
    /\ UNCHANGED <<cfg, types, src, tgt, store, now>>

\* The process ends in the middle of a run (killed, host restarted): the
\* locals of the run, the in-memory ledger of lines 410-451 among them, and
\* the lock of line 65 are gone; the downloaders and the plugin data stay.
Crash ==
    /\ run.pc \notin {"idle"}
    /\ lock' = FALSE
    /\ active' = 0
    /\ Set(Idle)
    /\ ev' = Event("crash", "none", <<>>)
    /\ UNCHANGED <<cfg, types, src, tgt, store, now>>

\* The steps of the code.
Step ==
        \/ TriggerAcquired
        \/ TriggerDropped
        \/ DoTransferSameIds
        \/ DoTransferUnavailable
        \/ DoTransferNoList
        \/ DoTransferBegin
        \/ ExtractMeta
        \/ GetContent
        \/ QueryFails
        \/ ClassifyA
        \/ ClassifyBC
        \/ ScenarioA_add
        \/ ScenarioA_sync
        \/ ScenarioB_primary
        \/ ScenarioB_fallback
        \/ Result
        \/ StopSource
        \/ SaveLedger
        \/ Notify
        \/ Release

\* Between two runs the user of the target downloader removes a torrent the
\* ledger has an entry for, or takes its trackers away: what get_torrents
\* and the tracker readers of the next run would then report.
TargetEdited ==
    /\ run.pc = "idle"
    /\ 0 < now /\ now < MaxRuns
    /\ \E h \in DOMAIN tgt \cap DOMAIN store :
          \/ tgt' = [k \in DOMAIN tgt \ {h} |-> tgt[k]]
          \/ /\ tgt[h].trackers # <<>>
             /\ tgt' = [tgt EXCEPT ![h].trackers = <<>>]
    /\ ev' = Event("edit", "none", <<>>)
    /\ UNCHANGED <<cfg, types, src, store, lock, now, active, run>>

Next == Step \/ Crash \/ TargetEdited

Spec == Init /\ [][Next]_vars

\* The longest list of completed torrents of the runs below.
MaxLong == 22

\* The locals of a run at the end of the loop of lines 437-449 over a list
\* of n torrents that the target refused one after the other: n failures,
\* n detail lines, nothing recorded.
LongRun(n) ==
    [Idle EXCEPT !.pc = "loop", !.torrents = [i \in 1..n |-> R2], !.pos = n + 1,
                 !.stats = [ZeroStats EXCEPT
                               !.failed = n,
                               !.details = [i \in 1..n |-> <<"failed", R2.name>>]],
                 !.base = n - 1, !.reads = 1]

\* The last run of the plugin is at the end of a list longer than those of
\* Init.
LongInit ==
    /\ cfg \in {c \in Configs : ~same_ids(c.source_id, c.target_id)}
    /\ types \in {t \in TypePairs : t.source \in ServiceTypes}
    /\ \E n \in (MaxDetails - 1)..MaxLong :
          /\ run = LongRun(n)
          /\ src = [torrents |-> LongRun(n).torrents, paused |-> {}]
    /\ tgt \in TargetStates(types.target)
    /\ store = EmptyMap
    /\ lock = TRUE
    /\ now = MaxRuns
    /\ active = 1
    /\ ev = Event("result", "failed", <<>>)

\* The runs of Spec and the end of the runs over long lists.
LongSpec == (Init \/ LongInit) /\ [][Next]_vars

(***************************************************************************)
(* The helper functions on their own: a call of one function with an       *)
(* argument of a bounded set; ev holds the function, the value returned    *)
(* (outcome) and the argument (calls).                                     *)
(***************************************************************************)
\* The longest argument list.
MaxItems == 3

\* Strings a tracker entry may be: with blanks around it, empty, blank, of
\* another scheme, a pseudo entry.
TrackerStrings == {U1, " http://a ", U2, "", " ", "ftp://c", "httpx://c", U3}

\* Tiers as transmission-rpc reports them.
TrackerTiers == SeqsUpTo({U1, " udp://b", "x"}, 2)

TrackerItems ==
    {StrItem(u) : u \in TrackerStrings} \cup {ListItem(q) : q \in TrackerTiers}
        \cup {NoneItem}

FnInit ==
    /\ cfg \in {c \in Configs : ~same_ids(c.source_id, c.target_id) /\ c.notify}
    /\ types = [source |-> "qbittorrent", target |-> "qbittorrent"]
    /\ src = [torrents |-> <<>>, paused |-> {}]
    /\ tgt = EmptyMap
    /\ store = EmptyMap
    /\ lock = FALSE
    /\ now = 0
    /\ active = 0
    /\ run = Idle
    /\ ev = NoEvent

\* _sanitize_tracker_list(tracker_list), lines 724-757.
Sanitize ==
    /\ ev = NoEvent
    /\ \E tracker_list \in SeqsUpTo(TrackerItems, MaxItems) :
          ev' = Event("_sanitize_tracker_list",
                      _sanitize_tracker_list(tracker_list), tracker_list)
    /\ UNCHANGED <<cfg, types, src, tgt, store, lock, now, active, run>>

\* Names of torrents: plain, empty, with a blank, with a slash, with the
\* characters that separate the parameters of a magnet.
TorrentNames == {"Example", "", "a b", "a/b", "x&tr=y"}

\* Tracker entries as a client reports them: an announce URL, the same with
\* a blank behind it, a URL with a query, a pseudo entry.
ReportedEntries == {U1, "http://a ", U2, "http://a?k=v&x", U3}

\* lines 789-795 with the readers of lines 680-718: the magnet of a torrent
\* whose client reports the entries `reported`.
BuildMagnet ==
    /\ ev = NoEvent
    /\ \E info_hash \in {"AB", "cd"}, name \in TorrentNames,
          service_type \in ServiceTypes,
          reported \in SeqsUpTo(ReportedEntries, MaxItems) :
          LET trackers == TrackerUrls(service_type, reported, Len(reported))
          IN  ev' = Event("_build_magnet",
                          _build_magnet(info_hash, trackers, name),
                          <<info_hash, trackers, name>>)
    /\ UNCHANGED <<cfg, types, src, tgt, store, lock, now, active, run>>

\* _extract_qb_meta / _extract_tr_meta, lines 556-614: the trackers field of
\* the metadata of a torrent whose client reports the entries `reported`,
\* the read of which fails after n entries or not at all.
ExtractTrackers ==
    /\ ev = NoEvent
    /\ \E service_type \in ServiceTypes,
          reported \in SeqsUpTo(ReportedEntries, MaxItems) :
          \E n \in ReadUpTo(reported) :
             LET torrent == RawTorrent("AB", "Example", reported, <<>>)
             IN  ev' = Event("_extract_meta",
                             _extract_meta(service_type, torrent, Ok, n, Ok).meta.trackers,
                             <<service_type, reported>>)
    /\ UNCHANGED <<cfg, types, src, tgt, store, lock, now, active, run>>

FnNext == Sanitize \/ BuildMagnet \/ ExtractTrackers

FnSpec == FnInit /\ [][FnNext]_vars
(***************************************************************************)
(* Properties.                                                             *)
(***************************************************************************)
Calls == Range(ev.calls)

\* The positions of _process_single_torrent.
TorrentPcs ==
    {"content", "query", "A_add", "A_sync", "B_primary", "B_fallback", "result", "stop"}

SourceReads == {"get_completed_torrents", "get_files", "torrents_trackers", "torrents_export"}

TargetAdds == {"torrents_add", "add_torrent"}
TargetInjects == {"update_tracker", "change_torrent"}

\* Calls a downloader offers that remove a torrent or its data.
Destructive == {"delete_torrents", "remove_torrents", "remove_torrent", "torrents_delete"}

\* C1: no call issued on the source or on the target deletes or removes
\* anything, and a call on the source is the pause call stop_torrents or one
\* of the reads (list, file list, tracker list, export).
C1_NoDestructiveCall ==
    \A c \in Calls :
        /\ c.op \notin Destructive
        /\ c.on = "source" => c.op \in SourceReads \cup {"stop_torrents"}
        /\ c.on = "target" =>
              c.op \in {"get_torrents", "torrents_trackers", "set_files",
                        "set_unwanted_files"} \cup TargetAdds \cup TargetInjects

\* The source has been paused for a hash by the pause call.
C1_Witness ==
    /\ ev.op = "stop" /\ ev.outcome = Ok
    /\ \E c \in Calls : c.on = "source" /\ c.op = "stop_torrents" /\ c.hash \in src.paused

\* C2: at most one caller is inside _do_transfer at any time, and that is
\* exactly while the lock is held; a trigger that finds the lock held is the
\* step TriggerDropped, which waits for nothing and changes nothing.
C2_OneRunAtATime ==
    /\ active <= 1
    /\ lock <=> active = 1
    /\ run.pc # "idle" <=> active = 1

\* A run is in the middle of a torrent and a further trigger is refused.
C2_Witness ==
    /\ run.pc = "A_add" /\ now < MaxRuns
    /\ ~acquire(lock)
    /\ ENABLED TriggerDropped /\ ~ENABLED TriggerAcquired

\* C3 as stated: the second of two runs, the first of which ran to its end
\* and persisted its ledger, issues no add and no tracker injection call.
C3_SecondRunIssuesNothing ==
    (now = 2 /\ active = 1 /\ store # EmptyMap) =>
        \A c \in Calls : c.op \notin TargetAdds \cup TargetInjects

\* The hash under which the plugin files a torrent of the source.
Key(torrent) == Lower(torrent.hash)

\* C3 amended: a run issues no add and no tracker injection call for a hash
\* of the persisted ledger, that is, for a hash whose scenario succeeded in
\* an earlier run that persisted its ledger; and when every torrent of the
\* source that has a hash is in the persisted ledger, the run issues no add
\* and no tracker injection call at all.
C3_NoRepeatForLedgered ==
    /\ \A c \in Calls :
          c.op \in TargetAdds \cup TargetInjects => c.hash \notin DOMAIN store
    /\ (\A i \in 1..Len(src.torrents) :
            src.torrents[i].hash # "" => Key(src.torrents[i]) \in DOMAIN store)
          => \A c \in Calls : c.op \notin TargetAdds \cup TargetInjects

\* The second run skips a hash the first run put into the ledger.
C3_Witness ==
    /\ now = 2 /\ store # EmptyMap
    /\ ev.op = "extract_meta" /\ ev.outcome = "in_history"

\* C4: no step of the plugin removes a tracker from a torrent of the target.
C4_TrackersNeverReduced ==
    [][ev'.op # "edit" =>
          \A h \in DOMAIN tgt :
             /\ h \in DOMAIN tgt'
             /\ Range(tgt[h].trackers) \subseteq Range(tgt'[h].trackers)]_vars

\* C5: when the target query succeeds exactly one of A, B, C is chosen:
\* A when the target lacks the hash, B when it holds it and source trackers
\* minus the target's trackers for the hash is not empty, that difference
\* being the missing set, and C when it holds it and the difference is empty.
C5_Classification ==
    (ev.op = "query" /\ ev.outcome \in {"A", "B", "C"}) =>
        LET present == run.hash \in DOMAIN tgt
            diff == IF present
                    THEN Range(run.meta.trackers) \ Range(tgt[run.hash].trackers)
                    ELSE {}
        IN  /\ run.scenario = ev.outcome
            /\ run.scenario = "A" <=> ~present
            /\ run.scenario = "B" <=> (present /\ diff # {})
            /\ run.scenario = "C" <=> (present /\ diff = {})
            /\ run.scenario = "B" => Range(run.missing) = diff

\* C5 relative to the tracker list the plugin's reader returned for the
\* target's torrent (run.existing), which is the target's list only when
\* the read went through.
C5_ClassificationAsRead ==
    (ev.op = "query" /\ ev.outcome \in {"A", "B", "C"}) =>
        LET present == run.hash \in DOMAIN tgt
            diff == Range(run.meta.trackers) \ Range(run.existing)
        IN  /\ run.scenario = ev.outcome
            /\ run.scenario = "A" <=> ~present
            /\ run.scenario = "B" <=> (present /\ diff # {})
            /\ run.scenario = "C" <=> (present /\ diff = {})
            /\ run.scenario = "B" =>
                  Range(run.missing) = diff /\ Len(run.missing) = Cardinality(diff)
            /\ run.scenario # "B" => run.missing = <<>>
            \* with the target's list read in full, the difference is the one
            \* against the target's own tracker list
            /\ (present /\ run.existing = CollectUrls(tgt[run.hash].trackers)) =>
                  diff = Range(run.meta.trackers) \ Range(tgt[run.hash].trackers)

\* The target holds the hash with {U2}, the source has {U1}: B, missing {U1}.
C5_Witness ==
    /\ ev.op = "query" /\ ev.outcome = "B"
    /\ run.meta.trackers = <<U1>> /\ run.existing = <<U2>> /\ run.missing = <<U1>>

\* The hashes with a ledger entry, persisted or of the run in progress.
Ledgered == DOMAIN store \cup DOMAIN run.history

\* C6: a hash enters the ledger only in the step that records its scenario
\* (A, B or C) after that scenario succeeded; a failed or raising torrent
\* leaves the ledger as it was.
C6_EntryOnlyAfterSuccess ==
    [][/\ \A h \in Ledgered' \ Ledgered :
              /\ run.pc = "result" /\ run.success /\ h = run.hash
              /\ run.scenario \in {"A", "B", "C"}
              /\ run'.history[h].scenario = run.scenario
              /\ h \in DOMAIN tgt
       \* a torrent is skipped as ledgered only when it has an entry
       /\ (run.pc = "loop" /\ run'.pos = run.pos + 1 /\ ev'.outcome = "in_history")
              => Key(run.torrents[run.pos]) \in DOMAIN run.history
       /\ (run.pc = "loop" /\ run'.pc = "content")
              => run'.hash \notin DOMAIN run.history
       /\ (ev'.outcome \in {Fail, Raise, "failed"} /\ ev'.op \in {"query", "add", "inject", "fallback", "result"})
              => Ledgered' = Ledgered]_vars

\* A run with a failed torrent and a successful one persisted its ledger.
C6_Witness ==
    /\ ev.op = "save" /\ ev.outcome = Ok
    /\ run.stats.failed = 1 /\ Cardinality(DOMAIN store) = 1
    /\ Len(run.torrents) = 2 /\ run.torrents[1].hash # run.torrents[2].hash

\* C7: an entry of the persisted ledger, and an entry of the ledger of the
\* run in progress, is never removed and never changed.
C7_LedgerOnlyGrows ==
    [][/\ \A h \in DOMAIN store : h \in DOMAIN store' /\ store'[h] = store[h]
       /\ (run.pc # "idle" /\ run'.pc \notin {"idle", "start"}) =>
              \A h \in DOMAIN run.history :
                  h \in DOMAIN run'.history /\ run'.history[h] = run.history[h]]_vars

\* After the second run the entry of the first run is still as written.
C7_Witness ==
    /\ ev.op = "save" /\ ev.outcome = Ok /\ now = 2
    /\ \E h1, h2 \in DOMAIN store : store[h1].time = 1 /\ store[h2].time = 2

\* C8: transfer_torrents returns normally whatever was raised inside
\* _do_transfer; every exception raised there reaches the except clause.
C8_NeverRaises ==
    /\ ev.op = "return" => ev.outcome \in {"normal", "caught"}
    /\ run.exc => run.pc = "release"

\* An exception of _do_transfer was caught and the entry point returned.
C8_Witness == ev.op = "return" /\ ev.outcome = "caught" /\ ~lock

\* C9 as stated: a torrent in whose processing a call raised adds exactly
\* one to the failed count.
C9_EveryErrorCountsOnce ==
    (run.pc = "loop" /\ run.pos > 1 /\ run.errs # {}) =>
        run.stats.failed = run.base + 1

\* C9 amended: an error raised by the target query, the add or the tracker
\* injection adds exactly one to the failed count; an error raised by the
\* metadata extraction, the export or the source pause adds nothing; no
\* torrent adds more than one; and a run that entered the loop leaves it
\* only after every position of the list.
C9_ErrorIsolation ==
    /\ (run.pc = "loop" /\ run.pos > 1) =>
          /\ run.errs \cap {"query", "add", "inject"} # {} =>
                run.stats.failed = run.base + 1
          /\ (run.errs # {} /\ run.errs \subseteq {"meta", "stop"}) =>
                run.stats.failed = run.base
          /\ run.stats.failed \in {run.base, run.base + 1}
    /\ ev.op = "content" => (run.pc = "query" /\ run.stats.failed = run.base)
    /\ run.pc \in TorrentPcs => run.pos <= Len(run.torrents)
    /\ (run.pc \in {"notify", "release"} /\ run.torrents # <<>>) =>
          run.pos = Len(run.torrents) + 1

\* The first torrent's query raised; the second torrent is being processed.
C9_Witness ==
    /\ run.pc = "content" /\ run.pos = 2 /\ run.connErr
    /\ run.stats.failed = 1

TargetSyncs == {"set_files", "set_unwanted_files"}

\* The calls that change a downloader.
Mutating == TargetAdds \cup TargetInjects \cup TargetSyncs \cup {"stop_torrents"}

\* The step is a step of the code of the run in progress, not the process
\* ending.
CodeStep == run' # run /\ ev'.op # "crash"

\* C11: scenario C changes neither endpoint: the step that classifies C
\* issues only the query and the tracker read, the outcome is success, and
\* the step that follows issues no call at all (no add, injection or file
\* priority call on the target, no pause on the source, whatever
\* clean_source is), changes only the skipped counter and the ledger of the
\* run, and goes on to the next torrent.
C11_ScenarioCFrame ==
    [][/\ (run.pc = "query" /\ run'.scenario = "C" /\ CodeStep) =>
              /\ run'.pc = "result" /\ run'.success
              /\ tgt' = tgt /\ src' = src /\ store' = store
              /\ \A c \in Range(ev'.calls) : c.op \notin Mutating
       /\ (run.pc = "result" /\ run.scenario = "C" /\ CodeStep) =>
              /\ run.success
              /\ ev'.calls = <<>>
              /\ tgt' = tgt /\ src' = src /\ store' = store
              /\ run'.pc = "loop" /\ run'.pos = run.pos + 1
              /\ run'.stats = [run.stats EXCEPT !.skipped = @ + 1]
              /\ run'.history = Put(run.history, run.hash, Record(run))
              /\ run'.stops = run.stops]_vars

\* With pause-on-success configured a torrent was skipped as C: it is
\* ledgered and the source is not paused.
C11_Witness ==
    /\ cfg.clean_source
    /\ ev.op = "result" /\ ev.outcome = "C"
    /\ run.stats.skipped = 1 /\ run.stats.transferred = 0 /\ run.stats.merged = 0
    /\ "ab" \in DOMAIN run.history /\ run.history["ab"].scenario = "C"
    /\ src.paused = {} /\ run.stops = {}
\* C12: the pause call is issued on the source for a hash exactly when
\* clean_source is set and the scenario executed for the hash was A or B and
\* succeeded: it is issued after the target action and after the ledger
\* entry, at most once per hash per run, and never for a failed, skipped
\* (C), ledgered or metadata-less torrent.
C12_PauseGate ==
    [][/\ \A c \in Range(ev'.calls) :
              (c.op = "stop_torrents" /\ vars' # vars) =>
                  /\ c.on = "source" /\ c.hash = run.hash
                  /\ run.pc = "stop" /\ cfg.clean_source
                  /\ run.scenario \in {"A", "B"} /\ run.success
                  /\ run.hash = Key(run.torrents[run.pos])
                  /\ run.hash \in DOMAIN tgt
                  /\ run.hash \in DOMAIN run.history
                  /\ run.history[run.hash].scenario = run.scenario
                  /\ run.hash \notin run.stops
       /\ (run.pc = "result" /\ CodeStep) =>
              (run'.pc = "stop" <=>
                  (cfg.clean_source /\ run.success /\ run.scenario \in {"A", "B"}))
       /\ (run.pc = "stop" /\ CodeStep) =>
              \E c \in Range(ev'.calls) : c.op = "stop_torrents" /\ c.hash = run.hash
       /\ (run.pc = "loop" /\ run'.pc = "loop" /\ run'.pos = run.pos + 1) =>
              (src' = src /\ run'.stops = run.stops)]_vars

\* One run paused the source for a transferred and for a merged torrent.
C12_Witness ==
    /\ cfg.clean_source /\ ev.op = "stop"
    /\ run.stops = {"ab", "cd"}
    /\ run.stats.transferred = 1 /\ run.stats.merged = 1
\* C13: the file priority call is issued on the target exactly when the
\* torrent was classified A, the add succeeded, the content added was the
\* exported file and the unwanted index list is not empty; it carries the
\* source's unwanted indices for the hash; with a magnet it is never issued.
C13_PartialSyncCondition ==
    [][/\ \A c \in Range(ev'.calls) :
              (c.op \in TargetSyncs /\ vars' # vars) =>
                  /\ c.on = "target" /\ c.hash = run.hash
                  /\ run.pc = "A_sync" /\ run.scenario = "A"
                  /\ run.hash \in DOMAIN tgt
                  /\ run.content.kind = "bytes"
                  /\ c.arg # <<>>
                  /\ c.arg = run.meta.unwanted_file_ids
                  /\ c.arg = run.torrents[run.pos].unwanted
                  /\ c.op = (IF types.target = "qbittorrent"
                             THEN "set_files" ELSE "set_unwanted_files")
       /\ (run.pc = "A_sync" /\ CodeStep) =>
              ((\E c \in Range(ev'.calls) : c.op \in TargetSyncs)
                  <=> (run.content.kind = "bytes" /\ run.meta.unwanted_file_ids # <<>>))
       /\ (run.pc = "A_add" /\ CodeStep) =>
              (run'.pc = "A_sync" <=> ev'.outcome = Ok)]_vars

\* The exported file was added and the call carried the indices 2 and 5.
C13_Witness ==
    /\ ev.op = "sync" /\ run.content.kind = "bytes"
    /\ \E c \in Calls : c.op \in TargetSyncs /\ c.arg = <<2, 5>> /\ c.hash = "cd"

\* A magnet was added for a torrent with unwanted files: no call.
C13_WitnessMagnet ==
    /\ ev.op = "sync" /\ ev.outcome = "skipped" /\ run.content.kind = "magnet"
    /\ run.meta.unwanted_file_ids = <<2, 5>>
\* C14: in scenario A an add that is rejected or raises fails the scenario
\* and no file priority call is issued; after a successful add the file
\* priority step, whether it succeeds, reports failure or raises, leaves
\* the scenario successful: it is counted as transferred and ledgered as A,
\* and the torrent stays on the target.
C14_ScenarioAFailures ==
    [][/\ (run.pc = "A_add" /\ CodeStep /\ ev'.outcome \in {Fail, Raise}) =>
              /\ run'.pc = "result" /\ ~run'.success /\ run'.scenario = "A"
              /\ tgt' = tgt
              /\ \A c \in Range(ev'.calls) : c.op \notin TargetSyncs
       /\ (run.pc = "result" /\ run.scenario = "A" /\ ~run.success /\ CodeStep) =>
              /\ ev'.calls = <<>> /\ tgt' = tgt
              /\ run'.stats.failed = run.stats.failed + 1
              /\ run'.stats.transferred = run.stats.transferred
              /\ run'.history = run.history
       /\ (run.pc = "A_sync" /\ CodeStep) =>
              /\ run'.pc = "result" /\ run'.success /\ run'.scenario = "A"
              /\ tgt' = tgt /\ run.hash \in DOMAIN tgt'
       /\ (run.pc = "result" /\ run.scenario = "A" /\ run.success /\ CodeStep) =>
              /\ run'.stats.transferred = run.stats.transferred + 1
              /\ run'.stats.failed = run.stats.failed
              /\ run.hash \in DOMAIN run'.history
              /\ run'.history[run.hash].scenario = "A"
              /\ tgt' = tgt /\ run.hash \in DOMAIN tgt']_vars

\* The file priority call raised after the add; the scenario succeeded.
C14_Witness ==
    /\ ev.op = "sync" /\ ev.outcome = Raise
    /\ run.pc = "result" /\ run.scenario = "A" /\ run.success
    /\ run.hash \in DOMAIN tgt
\* C15: scenario B on a Transmission target: the bulk set (update_tracker)
\* is attempted first; the incremental call (change_torrent with
\* tracker_add) is attempted exactly when the bulk set failed, whether it
\* returned failure or raised, and carries the missing URLs only; scenario B
\* succeeds exactly when one of the two succeeded.
C15_FallbackOrdering ==
    [][/\ (run.pc = "B_primary" /\ CodeStep) =>
              \E c \in Range(ev'.calls) : c.op = "update_tracker" /\ c.hash = run.hash
       /\ \A c \in Range(ev'.calls) :
              (c.op = "change_torrent" /\ vars' # vars) =>
                  /\ run.pc = "B_fallback"
                  /\ ev.op = "inject" /\ ev.outcome \in {Fail, Raise}
                  /\ Range(c.arg) = Range(run.missing)
       /\ (types.target = "transmission" /\ run.pc = "B_primary" /\ CodeStep) =>
              (run'.pc = "B_fallback" <=> ev'.outcome \in {Fail, Raise})
       /\ (run.pc \in {"B_primary", "B_fallback"} /\ run'.pc = "result") =>
              (run'.success <=> ev'.outcome = Ok)]_vars

\* C15 for a bulk set that returns failure: then the incremental call is
\* attempted, with the missing URLs only and the target's list untouched
\* until it succeeds; a bulk set that succeeds ends the scenario.
C15_FallbackAfterReportedFailure ==
    [][/\ \A c \in Range(ev'.calls) :
              (c.op = "change_torrent" /\ vars' # vars) =>
                  /\ run.pc = "B_fallback"
                  /\ ev.op = "inject" /\ ev.outcome = Fail
                  /\ Range(c.arg) = Range(run.missing)
       /\ (types.target = "transmission" /\ run.pc = "B_primary" /\ CodeStep) =>
              (run'.pc = "B_fallback" <=> ev'.outcome = Fail)
       /\ (run.pc \in {"B_primary", "B_fallback"} /\ run'.pc = "result") =>
              (run'.success <=> ev'.outcome = Ok)]_vars
\* C16: a run cut short before the ledger is persisted costs the next run
\* nothing but repeated checks: whatever the ledger holds, an add call is
\* issued only for a hash the target does not hold, a hash the target holds
\* is classified B or C when its query succeeds, and no destructive call is
\* issued.
C16_LostLedgerNoDuplicateAdd ==
    [][/\ \A c \in Range(ev'.calls) :
              /\ c.op \notin Destructive
              /\ (c.op \in TargetAdds /\ vars' # vars) =>
                    /\ run.pc = "A_add" /\ c.hash = run.hash
                    /\ c.hash \notin DOMAIN tgt
       /\ (run.pc = "query" /\ run.hash \in DOMAIN tgt /\ CodeStep
             /\ ev'.op = "query" /\ ev'.outcome \notin {Fail, Raise}) =>
              (run'.scenario \in {"B", "C"} /\ run'.pc \in {"B_primary", "result"})]_vars

\* The first run added cd and its ledger was lost; the second run finds cd
\* on the target and classifies it B or C.
C16_Witness ==
    /\ now = 2 /\ store = EmptyMap
    /\ ev.op = "query" /\ ev.outcome \in {"B", "C"}
    /\ run.hash = "cd" /\ "cd" \in DOMAIN tgt

\* The lost ledger comes from the process ending in the middle of the run.
C16_WitnessCrash ==
    /\ ev.op = "crash" /\ store = EmptyMap /\ "cd" \in DOMAIN tgt /\ now = 1
Exports == {c \in Calls : c.on = "source" /\ c.op = "torrents_export"}

\* C17 as stated: for either source type the content step first issues the
\* export call, returns the bytes when the export yields some and the
\* magnet only when it yields nothing or fails.
C17_ExportFirstEverySource ==
    ev.op = "content" =>
        /\ Exports # {}
        /\ run.content.kind = "bytes" <=> ev.outcome = Ok
        /\ run.content.kind = "magnet" <=> ev.outcome \in {Fail, Raise}

\* C17 amended: for a qBittorrent source the content step first issues the
\* export call for the torrent's hash, returns the bytes exactly when the
\* export yields some and the magnet exactly when it yields nothing or
\* raises; for a Transmission source it issues no export call and returns
\* the magnet built from the metadata.
C17_ContentPolicy ==
    ev.op = "content" =>
        /\ run.pc = "query"
        /\ types.source = "qbittorrent" =>
              /\ ev.calls # <<>> /\ ev.calls[1] \in Exports
              /\ ev.calls[1].hash = run.meta.hash
              /\ run.content.kind = "bytes" <=> ev.outcome = Ok
              /\ run.content.kind = "magnet" <=> ev.outcome \in {Fail, Raise}
        /\ types.source = "transmission" =>
              /\ ev.calls = <<>> /\ ev.outcome = "none"
              /\ run.content.kind = "magnet"
        /\ run.content.kind = "magnet" => run.content.trackers = run.meta.trackers

\* The export of a qBittorrent source raised and the magnet was taken.
C17_Witness ==
    /\ ev.op = "content" /\ types.source = "qbittorrent"
    /\ ev.outcome = Raise /\ run.content.kind = "magnet"
    /\ Exports # {}
\* C18: every add call issued on the target, on either target type and with
\* either kind of content, asks for a torrent that is not paused; on
\* qBittorrent it also switches automatic torrent management off. No
\* torrent of the target is left paused by an add.
C18_AddNotPaused ==
    /\ \A c \in Calls :
          /\ c.op = "torrents_add" =>
                /\ types.target = "qbittorrent"
                /\ c.arg.is_paused = FALSE
                /\ c.arg.use_auto_torrent_management = FALSE
          /\ c.op = "add_torrent" =>
                /\ types.target = "transmission"
                /\ c.arg.is_paused = FALSE
    /\ \A h \in DOMAIN tgt : ~tgt[h].paused

\* A magnet was added to a qBittorrent target.
C18_Witness ==
    /\ ev.op = "add" /\ ev.outcome = Ok
    /\ \E c \in Calls :
          /\ c.op = "torrents_add" /\ c.arg.kind = "magnet"
          /\ c.hash \in DOMAIN tgt /\ ~tgt[c.hash].paused

\* The exported file was added to a Transmission target.
C18_WitnessBytes ==
    /\ ev.op = "add" /\ ev.outcome = Ok
    /\ \E c \in Calls : c.op = "add_torrent" /\ c.arg.kind = "bytes"
\* How far a step of _process_single_torrent is from the end of its torrent.
PcRank ==
    [pc \in TorrentPcs \cup {"loop"} |->
        CASE pc = "loop" -> 7
          [] pc = "content" -> 6
          [] pc = "query" -> 5
          [] pc \in {"A_add", "B_primary"} -> 4
          [] pc \in {"A_sync", "B_fallback"} -> 3
          [] pc = "result" -> 2
          [] pc = "stop" -> 1]

\* The steps a run has left at most: the variant of the run.
Rank(r) ==
    CASE r.pc = "idle" -> 0
      [] r.pc = "release" -> 1
      [] r.pc = "notify" -> 2
      [] r.pc = "start" -> 8 * (MaxTorrents + 1) + 4
      [] OTHER -> 8 * (Len(r.torrents) + 1 - r.pos) + PcRank[r.pc] + 2

\* C19: a run that starts processing finishes: as long as the run has not
\* ended it has a next step whatever the clients answer, every step brings
\* it closer to its end, it goes through the list it enumerated in order,
\* one position at a time and each position once, the torrent in work being
\* the one at the position, and only after the last position it issues the
\* save of the ledger, also when every torrent fails.
C19_RunCompletes ==
    /\ [](run.pc # "idle" => ENABLED (Step /\ run' # run))
    /\ [][/\ (CodeStep /\ run.pc # "idle") => Rank(run') < Rank(run)
          /\ (run.pc = "start" /\ run'.pc = "loop") =>
                 (run'.pos = 1 /\ run'.torrents = src.torrents)
          /\ (run.pc \notin {"idle", "start"} /\ run'.pc # "idle") =>
                 /\ run'.torrents = run.torrents
                 /\ run'.pos \in {run.pos, run.pos + 1}
                 /\ run'.pos = run.pos + 1 <=> run'.pc = "loop"
          /\ (CodeStep /\ run.pc = "loop") =>
                 IF run.pos <= Len(run.torrents)
                 THEN /\ run'.pc \in {"loop", "content"}
                      /\ \A c \in Range(ev'.calls) : c.op # "save_data"
                 ELSE ev'.op = "save"
          /\ run'.pc \in TorrentPcs =>
                 /\ run'.pos \in 1..Len(run'.torrents)
                 /\ run'.hash = Key(run'.torrents[run'.pos])
          /\ \A c \in Range(ev'.calls) :
                 (c.op = "save_data" /\ CodeStep) =>
                     (run.pc = "loop" /\ run.pos = Len(run.torrents) + 1)]_vars

\* Both torrents of the list failed and the ledger was saved all the same.
C19_Witness ==
    /\ ev.op = "save" /\ ev.outcome = Ok
    /\ Len(run.torrents) = 2 /\ run.stats.failed = 2 /\ run.pos = 3
\* C20: a run that processes torrents reads the persisted ledger once, in
\* the step that leaves the start of the run and before position 1, and
\* calls save_data once, after the last position, with the mapping it read
\* plus what it recorded; no step at a torrent reads or writes the ledger,
\* the persisted ledger changes in a save step only, and a read or a write
\* happens while no other run is inside transfer_torrents.  A run that
\* returns before the loop reads at most once and never writes.
C20_LedgerReadWriteOnce ==
    [][LET calls == Range(ev'.calls)
           reads == {c \in calls : c.op = "get_data"}
           writes == {c \in calls : c.op = "save_data"}
       IN  CodeStep =>
             /\ reads # {} =>
                   /\ run.pc = "start" /\ active' = 1
                   /\ run.reads = 0 /\ run'.reads = 1 /\ run'.writes = 0
                   /\ run'.pc = "loop" => (run'.history = store /\ run'.pos = 1)
             /\ (run'.pc # "idle" /\ run'.reads # run.reads) => reads # {}
             /\ writes # {} =>
                   /\ run.pc = "loop" /\ run.pos = Len(run.torrents) + 1
                   /\ active' = 1
                   /\ run.reads = 1 /\ run.writes = 0 /\ run'.writes = 1
                   /\ ev'.outcome = Ok =>
                         /\ store' = run.history
                         /\ \A h \in DOMAIN store :
                               h \in DOMAIN store' /\ store'[h] = store[h]
             /\ (run'.pc # "idle" /\ run'.writes # run.writes) => writes # {}
             /\ store' # store => (writes # {} /\ ev'.outcome = Ok)
             /\ (run.pc \in TorrentPcs \/
                   (run.pc = "loop" /\ run.pos <= Len(run.torrents))) =>
                   (reads = {} /\ writes = {} /\ run.reads = 1 /\ run.writes = 0)
             /\ ev'.op = "return" =>
                   IF run.pos >= 1
                   THEN run.reads = 1 /\ run.writes = 1
                   ELSE run.reads <= 1 /\ run.writes = 0]_vars

\* The second run read the ledger the first run saved and saved it again
\* with an entry of its own.
C20_Witness ==
    /\ ev.op = "save" /\ ev.outcome = Ok
    /\ now = 2 /\ run.reads = 1 /\ run.writes = 1
    /\ store = run.history
    /\ \E h, k \in DOMAIN store : h # k /\ store[h].time = 1 /\ store[k].time = 2
\* A sequence without a repeated element.
Distinct(q) == \A i, j \in 1..Len(q) : q[i] = q[j] => i = j

\* C21: the update_tracker call of scenario B on a Transmission target
\* carries the union of the target's trackers for the hash and the missing
\* trackers, each URL once, the target's trackers first in their order, one
\* URL per tier.
C21_BulkSetIsUnion ==
    [][(CodeStep /\ ev'.op = "inject" /\ types.target = "transmission") =>
          \A c \in Range(ev'.calls) :
             c.op = "update_tracker" =>
                LET urls == Flatten(c.arg)
                    existing == CollectUrls(tgt[run.hash].trackers)
                IN  /\ \A i \in 1..Len(c.arg) : Len(c.arg[i]) = 1
                    /\ Distinct(urls)
                    /\ Range(urls) = Range(existing) \cup Range(run.missing)
                    /\ Len(urls) >= Len(existing)
                    /\ SubSeq(urls, 1, Len(existing)) = existing]_vars

\* C21 relative to the tracker list the plugin's reader returned for the
\* target's torrent (run.existing).
C21_BulkSetAsRead ==
    [][(CodeStep /\ ev'.op = "inject" /\ types.target = "transmission") =>
          \A c \in Range(ev'.calls) :
             c.op = "update_tracker" =>
                LET urls == Flatten(c.arg)
                IN  /\ \A i \in 1..Len(c.arg) : Len(c.arg[i]) = 1
                    /\ Distinct(urls)
                    /\ Range(urls) = Range(run.existing) \cup Range(run.missing)
                    /\ Len(urls) >= Len(run.existing)
                    /\ SubSeq(urls, 1, Len(run.existing)) = run.existing]_vars
\* C22: when scenario B ends as failed, no step of the attempt has changed
\* the target, and the result step adds exactly one to the failed counter
\* of the torrent and to no other counter, writes no ledger entry for the
\* hash and does not go on to the pause of the source.
C22_ScenarioBFailure ==
    [][CodeStep =>
          /\ (ev'.op \in {"inject", "fallback"} /\ ev'.outcome # Ok) =>
                /\ tgt' = tgt /\ src' = src
                /\ run'.pc \in {"B_fallback", "result"}
                /\ run'.pc = "result" => (run'.scenario = "B" /\ ~run'.success)
                /\ run'.stats = run.stats /\ run'.history = run.history
          /\ (run.pc = "result" /\ run.scenario = "B" /\ ~run.success) =>
                /\ ev'.op = "result" /\ ev'.outcome = "failed" /\ ev'.calls = <<>>
                /\ run'.stats.failed = run.stats.failed + 1
                /\ run'.stats.failed = run.base + 1
                /\ run'.stats.transferred = run.stats.transferred
                /\ run'.stats.merged = run.stats.merged
                /\ run'.stats.skipped = run.stats.skipped
                /\ run'.history = run.history
                /\ run.hash \notin DOMAIN run'.history
                /\ run'.pc = "loop" /\ run'.pos = run.pos + 1
                /\ run'.stops = run.stops
                /\ tgt' = tgt /\ src' = src /\ store' = store]_vars

\* The injection raised and the torrent has been counted as failed.
C22_Witness ==
    /\ ev.op = "result" /\ ev.outcome = "failed"
    /\ "inject" \in run.errs
    /\ run.stats.failed = run.base + 1 /\ run.stats.merged = 0
    /\ run.pos = 2 /\ Key(run.torrents[1]) \notin DOMAIN run.history
    /\ Key(run.torrents[1]) \in DOMAIN tgt

\* Primary and fallback of the Transmission target both reported failure.
C22_WitnessBothFailed ==
    /\ run.pc = "result" /\ run.scenario = "B" /\ ~run.success
    /\ ev.op = "fallback" /\ ev.outcome = Fail
    /\ CollectUrls(tgt[run.hash].trackers) = run.existing
\* C23: a run whose source and target identifiers are equal, whose source or
\* target service is unavailable, or whose list of completed torrents is
\* None or empty, goes from its start straight to its return: no torrent is
\* processed, no call that changes a downloader, no save of the ledger and
\* no notification is issued; with equal identifiers not even the list call.
C23_AbortBeforeProcessing ==
    [][CodeStep =>
          /\ (run.pc = "start" /\ cfg.source_id = cfg.target_id) =>
                (ev'.op = "same_ids" /\ ev'.calls = <<>>)
          /\ (run.pc = "start" /\ src.torrents = <<>>) =>
                ev'.op \in {"same_ids", "unavailable", "no_list"}
          /\ ev'.op = "unavailable" => ev'.calls = <<>>
          /\ ev'.op = "no_list" =>
                \A c \in Range(ev'.calls) :
                   c.op \in {"get_data", "get_completed_torrents"}
          /\ ev'.op \in {"same_ids", "unavailable", "no_list"} =>
                /\ run.pc = "start" /\ run'.pc = "release"
                /\ run'.pos = 0 /\ run'.torrents = <<>>
                /\ run'.stats = ZeroStats /\ run'.history = EmptyMap
                /\ run'.writes = 0 /\ run'.stops = {}
                /\ tgt' = tgt /\ src' = src /\ store' = store
          /\ (run.pc = "release" /\ run.pos = 0) =>
                /\ ev'.op = "return" /\ ev'.calls = <<>>
                /\ run.writes = 0 /\ run.stats = ZeroStats
                /\ tgt' = tgt /\ src' = src /\ store' = store]_vars

\* A run over an empty list of completed torrents has returned.
C23_Witness ==
    /\ ev.op = "return" /\ run.pc = "idle" /\ now = 1
    /\ src.torrents = <<>> /\ cfg.source_id # cfg.target_id
    /\ store = EmptyMap

\* A run with equal identifiers is about to return.
C23_WitnessSameIds ==
    /\ ev.op = "same_ids" /\ run.pc = "release" /\ cfg.source_id = cfg.target_id
\* C24: a source torrent of a client type without extractor, one whose
\* extraction raises and one whose hash is empty is left at once: the step
\* issues no call on the target and none that changes the source, writes no
\* ledger entry, changes no counter, and the run is at the next torrent.
C24_NoMetaDropped ==
    [][(CodeStep /\ run.pc = "loop" /\ run.pos <= Len(run.torrents)) =>
          /\ ev'.op = "extract_meta"
          /\ (types.source \notin ServiceTypes \/ run.torrents[run.pos].hash = "") =>
                ev'.outcome = "no_meta"
          /\ ev'.outcome = "no_meta" =>
                /\ \A c \in Range(ev'.calls) : c.on = "source" /\ c.op \in SourceReads
                /\ run'.stats = run.stats
                /\ run'.history = run.history
                /\ run'.stops = run.stops
                /\ run'.pc = "loop" /\ run'.pos = run.pos + 1
                /\ tgt' = tgt /\ src' = src /\ store' = store]_vars

\* The source is of a type without extractor: both torrents were dropped.
C24_Witness ==
    /\ ev.op = "extract_meta" /\ ev.outcome = "no_meta"
    /\ types.source \notin ServiceTypes
    /\ Len(run.torrents) = 2 /\ run.pos = 3
    /\ run.stats = ZeroStats /\ run.history = EmptyMap

\* A torrent without a hash was dropped after its metadata was read.
C24_WitnessNoHash ==
    /\ ev.op = "extract_meta" /\ ev.outcome = "no_meta"
    /\ run.pos = 2 /\ run.torrents[1].hash = "" /\ ev.calls # <<>>
    /\ run.stats = ZeroStats

\* The extraction of a torrent with a hash raised.
C24_WitnessRaise ==
    /\ ev.op = "extract_meta" /\ ev.outcome = "no_meta"
    /\ run.pos = 2 /\ run.torrents[1].hash # "" /\ types.source \in ServiceTypes
    /\ run.stats = ZeroStats
\* C25: when the query of the target for a hash reports an error or raises,
\* the torrent is not classified: the query is the only call issued for it,
\* the failed counter of the run goes up by exactly one and no other counter
\* changes, no ledger entry is written, neither downloader changes, and the
\* run is at the next torrent.
C25_QueryErrorFailsTorrent ==
    [][CodeStep =>
          /\ (ev'.op = "query" /\ ev'.outcome \in {Fail, Raise}) =>
                /\ ev'.calls = <<QueryCall(run)>>
                /\ run'.scenario = "none" /\ ~run'.success
                /\ run'.history = run.history
                /\ tgt' = tgt /\ src' = src /\ store' = store
                /\ ev'.outcome = Fail =>
                      (run'.pc = "result" /\ run'.stats = run.stats)
                /\ ev'.outcome = Raise =>
                      /\ run'.pc = "loop" /\ run'.pos = run.pos + 1
                      /\ run'.stats = [run.stats EXCEPT !.failed = run.base + 1]
          /\ (run.pc = "result" /\ run.scenario = "none") =>
                /\ ev'.op = "result" /\ ev'.outcome = "failed" /\ ev'.calls = <<>>
                /\ run'.stats.failed = run.base + 1
                /\ run'.stats.failed = run.stats.failed + 1
                /\ run'.stats.transferred = run.stats.transferred
                /\ run'.stats.merged = run.stats.merged
                /\ run'.stats.skipped = run.stats.skipped
                /\ run'.history = run.history
                /\ run.hash \notin DOMAIN run'.history
                /\ run'.pc = "loop" /\ run'.pos = run.pos + 1
                /\ run'.stops = run.stops
                /\ tgt' = tgt /\ src' = src /\ store' = store]_vars

\* The query reported an error for a hash the target holds.
C25_Witness ==
    /\ ev.op = "query" /\ ev.outcome = Fail
    /\ run.pc = "result" /\ run.scenario = "none" /\ ~run.success
    /\ run.hash \in DOMAIN tgt

\* The query of the first torrent raised; the run is at the second torrent.
C25_WitnessRaise ==
    /\ ev.op = "query" /\ ev.outcome = Raise
    /\ run.pc = "loop" /\ run.pos = 2 /\ Len(run.torrents) = 2
    /\ run.stats.failed = 1 /\ run.history = EmptyMap
\* C26: a source torrent whose lowercased hash is a key of the ledger is
\* left as soon as its metadata is read: the step issues no call on the
\* target and no pause on the source, changes no counter and no ledger
\* entry, and the run is at the next torrent, whatever the target holds for
\* the hash by now.
C26_LedgerShortCircuit ==
    [][(CodeStep /\ run.pc = "loop" /\ run.pos <= Len(run.torrents)) =>
          /\ Key(run.torrents[run.pos]) \in DOMAIN run.history =>
                ev'.outcome \in {"in_history", "no_meta"}
          /\ ev'.outcome = "in_history" =>
                /\ Key(run.torrents[run.pos]) \in DOMAIN run.history
                /\ \A c \in Range(ev'.calls) : c.on = "source" /\ c.op \in SourceReads
                /\ run'.stats = run.stats
                /\ run'.history = run.history
                /\ run'.stops = run.stops
                /\ run'.pc = "loop" /\ run'.pos = run.pos + 1
                /\ tgt' = tgt /\ src' = src /\ store' = store]_vars

\* The second run skips a ledgered hash that the target no longer holds.
C26_Witness ==
    /\ ev.op = "extract_meta" /\ ev.outcome = "in_history"
    /\ now = 2 /\ run.pos = 2
    /\ Key(run.torrents[1]) \in DOMAIN store
    /\ Key(run.torrents[1]) \notin DOMAIN tgt

\* The second run skips a ledgered hash whose trackers the target has lost.
C26_WitnessNoTrackers ==
    /\ ev.op = "extract_meta" /\ ev.outcome = "in_history"
    /\ now = 2 /\ run.pos = 2
    /\ Key(run.torrents[1]) \in DOMAIN store \cap DOMAIN tgt
    /\ tgt[Key(run.torrents[1])].trackers = <<>>
    /\ run.torrents[1].trackers # <<>>
\* C27: post_message is called by the notify position only, which a run
\* enters once, from the successful save after the last torrent; it is
\* called there exactly when notify is configured and transferred + merged +
\* failed is positive, once, and with the first MaxDetails detail lines of
\* the run at most.
C27_NotificationOnce ==
    [][CodeStep =>
          LET posts == {i \in 1..Len(ev'.calls) : ev'.calls[i].op = "post_message"}
              actions == run.stats.transferred + run.stats.merged + run.stats.failed
              details == run.stats.details
          IN  /\ run'.pc = "notify" =>
                    /\ run.pc = "loop" /\ run.pos = Len(run.torrents) + 1
                    /\ ev'.op = "save" /\ ev'.outcome = Ok
                    /\ run.writes = 0 /\ run'.writes = 1
                    /\ store' = run'.history
              /\ posts # {} => run.pc = "notify"
              /\ run.pc = "notify" =>
                    /\ run'.pc = "release" /\ store' = store
                    /\ (cfg.notify /\ actions > 0) => Cardinality(posts) = 1
                    /\ ~(cfg.notify /\ actions > 0) => ev'.calls = <<>>
                    /\ \A i \in posts :
                          LET lines == ev'.calls[i].arg
                          IN  /\ Len(lines) <= MaxDetails
                              /\ Len(lines) <= Len(details)
                              /\ lines = SubSeq(details, 1, Len(lines))
                              /\ Len(details) <= MaxDetails => lines = details]_vars

\* A run over more than MaxDetails failed torrents has sent its summary.
C27_Witness ==
    /\ ev.op = "notify" /\ ev.outcome = Ok
    /\ Len(run.stats.details) > MaxDetails
    /\ \E c \in Calls : c.op = "post_message" /\ Len(c.arg) = MaxDetails

\* A run in which every torrent was skipped sends nothing.
C27_WitnessNoAction ==
    /\ ev.op = "notify" /\ ev.outcome = "skipped" /\ cfg.notify
    /\ run.stats.skipped > 0
    /\ run.stats.transferred + run.stats.merged + run.stats.failed = 0
\* The URL is of one of the three schemes.
SchemeOk(url) ==
    StartsWith(url, "http://") \/ StartsWith(url, "https://") \/ StartsWith(url, "udp://")

\* The strings of a list of items, tiers flattened, in order.
RECURSIVE ItemStrings(_)
ItemStrings(items) ==
    IF items = <<>> THEN <<>>
    ELSE (CASE Head(items).kind = "list" -> Head(items).sub
            [] Head(items).kind = "str" -> <<Head(items).s>>
            [] OTHER -> <<>>) \o ItemStrings(Tail(items))

\* q is p without some of its elements.
RECURSIVE Subsequence(_, _)
Subsequence(q, p) ==
    IF q = <<>> THEN TRUE
    ELSE IF p = <<>> THEN FALSE
    ELSE IF Head(q) = Head(p) THEN Subsequence(Tail(q), Tail(p))
    ELSE Subsequence(q, Tail(p))

Trimmed(q) == [i \in 1..Len(q) |-> Strip(q[i])]

\* C28: sanitize returns strings that are not empty, are of scheme http,
\* https or udp and are distinct; they are the trimmed strings of the input,
\* tiers flattened, in the order of their first occurrence; sanitize of the
\* result is the result.
C28_Sanitize ==
    ev.op = "_sanitize_tracker_list" =>
        LET out == ev.outcome
            given == Trimmed(ItemStrings(ev.calls))
        IN  /\ \A i \in 1..Len(out) : out[i] # "" /\ SchemeOk(out[i])
            /\ Distinct(out)
            /\ \A i \in 1..Len(out) : Strip(out[i]) = out[i]
            /\ Subsequence(out, given)
            /\ \A i \in 1..Len(given) : SchemeOk(given[i]) => given[i] \in Range(out)
            /\ \A i, j \in 1..Len(out) :
                  i < j => (\E k \in 1..Len(given) :
                               /\ given[k] = out[i]
                               /\ \A m \in 1..k : given[m] # out[j])
            /\ _sanitize_tracker_list(AsItems(out)) = out

\* C28 with the test the code makes, a prefix "http" or "udp", in place of
\* the scheme.
C28_SanitizeByPrefix ==
    ev.op = "_sanitize_tracker_list" =>
        LET out == ev.outcome
            given == Trimmed(ItemStrings(ev.calls))
        IN  /\ \A i \in 1..Len(out) : out[i] # "" /\ AcceptedUrl(out[i])
            /\ Distinct(out)
            /\ \A i \in 1..Len(out) : Strip(out[i]) = out[i]
            /\ Subsequence(out, given)
            /\ \A i \in 1..Len(given) : AcceptedUrl(given[i]) => given[i] \in Range(out)
            /\ \A i, j \in 1..Len(out) :
                  i < j => (\E k \in 1..Len(given) :
                               /\ given[k] = out[i]
                               /\ \A m \in 1..k : given[m] # out[j])
            /\ _sanitize_tracker_list(AsItems(out)) = out
\* The pieces of s between the occurrences of the character sep.
Split(s, sep) ==
    LET at == {i \in 1..Len(s) : SubSeq(s, i, i) = sep}
        cut(k) == IF k = 0 THEN 0
                  ELSE IF k = Cardinality(at) + 1 THEN Len(s) + 1
                  ELSE CHOOSE i \in at : Cardinality({j \in at : j < i}) = k - 1
    IN  [k \in 1..(Cardinality(at) + 1) |-> SubSeq(s, cut(k - 1) + 1, cut(k) - 1)]

\* urllib.parse.unquote on the characters of QuoteChar.
UnquoteHex(h) ==
    CASE h = "20" -> " " [] h = "25" -> "%" [] h = "26" -> "&"
      [] h = "2A" -> "*" [] h = "2F" -> "/" [] h = "3A" -> ":"
      [] h = "3D" -> "=" [] h = "3F" -> "?" [] h = "5B" -> "["
      [] h = "5D" -> "]"
      [] OTHER -> "%" \o h

RECURSIVE unquote(_)
unquote(s) ==
    IF Len(s) = 0 THEN s
    ELSE IF SubSeq(s, 1, 1) = "%" /\ Len(s) >= 3
         THEN UnquoteHex(SubSeq(s, 2, 3)) \o unquote(SubSeq(s, 4, Len(s)))
         ELSE SubSeq(s, 1, 1) \o unquote(SubSeq(s, 2, Len(s)))

\* The value of a parameter "key=value".
ParamValue(param, key) == unquote(SubSeq(param, Len(key) + 2, Len(param)))

\* The magnet uri is the prefix with the hash, then the dn parameter with
\* the name if the name is not empty, then one tr parameter for each URL of
\* expected, in order, and nothing else.
MagnetShape(uri, info_hash, name, expected) ==
    LET parts == Split(uri, "&")
        dn == IF name # "" THEN 1 ELSE 0
    IN  /\ Len(parts) = 1 + dn + Len(expected)
        /\ parts[1] = "magnet:?xt=urn:btih:" \o info_hash
        /\ dn = 1 => (StartsWith(parts[2], "dn=") /\ ParamValue(parts[2], "dn") = name)
        /\ \A i \in 1..Len(expected) :
              /\ StartsWith(parts[1 + dn + i], "tr=")
              /\ ParamValue(parts[1 + dn + i], "tr") = expected[i]

\* C29: the magnet is the prefix with the hash, one dn parameter with the
\* encoded name iff the name is not empty, then one tr parameter for each
\* tracker of the torrent, duplicates removed, in order, and nothing else.
C29_MagnetShape ==
    ev.op = "_build_magnet" =>
        MagnetShape(ev.outcome, ev.calls[1], ev.calls[3], Dedupe(ev.calls[2], {}))

\* C29 with one tr parameter for each element of the tracker list that
\* _build_magnet is given, duplicates included.
C29_MagnetShapeAsGiven ==
    ev.op = "_build_magnet" =>
        MagnetShape(ev.outcome, ev.calls[1], ev.calls[3], ev.calls[2])
\* C30: the trackers field of extracted metadata holds no URL twice and
\* only URLs of scheme http, https or udp, for both client types, whatever
\* the client reports.
C30_MetaTrackersDistinct ==
    ev.op = "_extract_meta" =>
        /\ Distinct(ev.outcome)
        /\ \A i \in 1..Len(ev.outcome) : SchemeOk(ev.outcome[i])

\* What the trackers field is: the reported entries that start with "http"
\* or "udp", stripped, in the reported order, as many times as reported.
C30_MetaTrackersAsReported ==
    ev.op = "_extract_meta" =>
        LET reported == ev.calls[2]
            kept == SelectSeq(reported, AcceptedUrl)
        IN  \/ ev.outcome = <<>>
            \/ ev.outcome = Trimmed(kept)

Succeeded(stats) == stats.transferred + stats.merged + stats.skipped

Accounted(stats) == Succeeded(stats) + stats.failed

CounterNames == {"transferred", "merged", "skipped", "failed"}

\* The ledger entries the run in progress has added: the keys of its
\* history dict that the plugin data, unchanged until line 451, do not hold.
EntriesAdded == DOMAIN run.history \ DOMAIN store

\* C31: while a run is in the loop, every torrent before the current one
\* has added exactly one to exactly one of the four counters or was dropped
\* (in the ledger already, or without metadata), and the current one has
\* added nothing before its outcome is recorded; the successes are as many
\* as the ledger entries the run has added; at the end of the loop the four
\* counters and the dropped torrents add up to the length of the list; and
\* no step of a run lowers a counter, raises one by more than one or raises
\* two of them.
C31_StatsAccounting ==
    /\ [](/\ run.pc \in {"loop"} \cup (TorrentPcs \ {"stop"}) =>
                Accounted(run.stats) + run.dropped = run.pos - 1
          /\ run.pc = "stop" =>
                Accounted(run.stats) + run.dropped = run.pos
          /\ run.pc \in {"loop"} \cup TorrentPcs =>
                Succeeded(run.stats) = Cardinality(EntriesAdded)
          /\ run.pc \in {"loop", "notify"} /\ run.pos > Len(run.torrents) =>
                Accounted(run.stats) + run.dropped = Len(run.torrents))
    /\ [][(CodeStep /\ run.pc \in {"loop"} \cup TorrentPcs /\ run'.pc # "idle") =>
             /\ \A c \in CounterNames :
                    run'.stats[c] \in {run.stats[c], run.stats[c] + 1}
             /\ run'.dropped \in {run.dropped, run.dropped + 1}
             /\ (Accounted(run'.stats) + run'.dropped)
                    \in {Accounted(run.stats) + run.dropped,
                         Accounted(run.stats) + run.dropped + 1}
             /\ Accounted(run'.stats) + run'.dropped # Accounted(run.stats) + run.dropped
                    => (run'.pos = run.pos + 1 \/ run'.pc = "stop")
             /\ Succeeded(run'.stats) - Succeeded(run.stats)
                    = Cardinality(DOMAIN run'.history) - Cardinality(DOMAIN run.history)
         ]_vars

\* The end of a run over two torrents: one was added or merged, the other
\* was dropped.
C31_Witness ==
    /\ run.pc = "loop" /\ Len(run.torrents) = 2 /\ run.pos = 3
    /\ run.stats.transferred + run.stats.merged = 1
    /\ run.dropped = 1
    /\ Cardinality(EntriesAdded) = 1

\* The end of a run over two torrents: one failed, the other was skipped
\* in scenario C.
C31_WitnessFailedSkipped ==
    /\ run.pc = "loop" /\ Len(run.torrents) = 2 /\ run.pos = 3
    /\ run.stats.failed = 1 /\ run.stats.skipped = 1

\* The steps at which _do_transfer returns before the loop (lines 383-422).
AbortOps == {"same_ids", "unavailable", "no_list"}

\* C32: a run that ends has released the lock, however it ends: every way
\* out of _do_transfer (the early returns, an exception, the normal end)
\* leads to the release, the release frees the lock whether or not an
\* exception is pending, and whenever no run is in progress the lock is
\* free, so that a trigger is not dropped and the next run can start.
C32_GuardReleased ==
    /\ [](run.pc = "idle" => (~lock /\ active = 0 /\ acquire(lock)))
    /\ [](run.pc = "idle" /\ now < MaxRuns =>
              (ENABLED TriggerAcquired /\ ~ENABLED TriggerDropped))
    /\ [][/\ (run.pc # "idle" /\ run'.pc = "idle") =>
                (~lock' /\ ev'.op \in {"return", "crash"})
          /\ (run.pc = "release" /\ run' # run) =>
                (run'.pc = "idle" /\ ~lock')
          /\ (CodeStep /\ (ev'.op \in AbortOps \cup {"notify"} \/ run'.exc)) =>
                run'.pc = "release"
         ]_vars

\* A run has just ended with an exception of _do_transfer that
\* transfer_torrents caught; the lock is free and another run may start.
C32_Witness ==
    /\ ev.op = "return" /\ ev.outcome = "caught"
    /\ run.pc = "idle" /\ ~lock /\ now < MaxRuns

\* The second run has started after the first one ended without a ledger
\* entry.
C32_WitnessNextRun ==
    /\ run.pc = "start" /\ now = 2 /\ lock /\ store = EmptyMap

\* A run that aborted before the loop is about to release the lock.
C32_WitnessAbort ==
    /\ run.pc = "release" /\ ev.op \in AbortOps /\ ~run.exc /\ lock
====
